---- MODULE Spec2Model ----
(***************************************************************************)
(* keriox: the in-memory event database (keriox_core/src/database/         *)
(* memory.rs) and the notification bus (keriox_core/src/processor/         *)
(* notification.rs) as state machines.                                     *)
(*                                                                         *)
(*   SpecBus     NotificationBus / InProcessDispatch: one publishing       *)
(*               thread (with cascaded publishes) and one registering      *)
(*               thread, over the observer registry's RwLock.              *)
(*   SpecKel     MemoryDatabase::add_kel_finalized_event run by writer     *)
(*               threads, lock acquisition by lock acquisition, with one   *)
(*               reader thread.                                            *)
(*   SpecSeq     MemoryDatabase::add_kel_finalized_event called one call   *)
(*               after the other, each call running to its return.         *)
(*   SpecDb      every EventDatabase operation of MemoryDatabase, receipts *)
(*               included, one call after the other on one identifier.     *)
(*   SpecEscrow  MemoryLogDatabase and MemoryEscrowDb operations.          *)
(*   SpecLog     MemoryLogDatabase: the nontransferable couplets of a      *)
(*               digest, logged and removed.                               *)
(*   SpecIndex   one MemorySequencedEventDb on its own: insert and remove. *)
(*   SpecPlaced  escrow tables filled by insert and insert_key_value only, *)
(*               and emptied by remove.                                    *)
(***************************************************************************)
EXTENDS Integers, Sequences, FiniteSets, TLC

VARIABLES
    \* ---- notification.rs ----
    observers,        \* InProcessDispatch.observers, by dispatch object:
                      \* dispatch -> kind -> list of observers
    bus,              \* InProcessDispatch.bus (OnceLock<NotificationBus>)
    clones,           \* the NotificationBus handles the program holds
    readers,          \* read guards held on the observers RwLock
    write_preferring, \* the RwLock's priority policy (std leaves it to the OS)
    stack,            \* call stack of dispatch frames of the publishing thread
    regPc,            \* registering thread: "idle" | "wait" (blocked in write())
    regArgs,          \* its arguments: [observer, notifications]
    last,             \* the dispatch that returned last (history)
    \* ---- memory.rs: MemoryDatabase, MemoryLogDatabase ----
    states,           \* MemoryDatabase.states: id -> IdentifierState
    events,           \* MemoryDatabase.events: id -> list of timestamped events
    log_events,       \* MemoryLogDatabase.events: digest -> timestamped event
    log_signatures,   \* MemoryLogDatabase.signatures: digest -> signatures
    writer,           \* threads inside add_kel_finalized_event
    reader,           \* a thread reading key state, KEL and log
    lastCall,         \* history: the database call that returned last
    \* ---- memory.rs: MemoryEscrowDb, MemorySequencedEventDb ----
    sequenced,        \* the escrow tables made so far: each a MemorySequencedEventDb.data
    escrow_db,        \* MemoryDatabase.escrow_db: table name -> table
    \* ---- memory.rs: receipts ----
    receipts_t,       \* MemoryDatabase.receipts_t: (id, sn) -> list of Transferable
    receipts_nt,      \* MemoryDatabase.receipts_nt: (id, sn) -> list of receipts
    nontrans_couplets \* MemoryLogDatabase.nontrans_couplets: digest -> couplets

busVars == <<observers, bus, clones, readers, write_preferring, stack, regPc, regArgs, last>>

dbVars == <<states, events, log_events, log_signatures>>

kelVars == <<writer, reader>>

seqVars == <<lastCall>>

escrowVars == <<sequenced, escrow_db>>

receiptVars == <<receipts_t, receipts_nt, nontrans_couplets>>

vars == <<busVars, dbVars, kelVars, seqVars, escrowVars, receiptVars>>

(***************************************************************************)
(* Bounds                                                                  *)
(***************************************************************************)
NumKinds == 2          \* notification kinds published / registered for
NumObservers == 2      \* distinct observer objects
MaxRegistered == 2     \* observers registered per kind
MaxDepth == 2          \* depth of cascaded notify calls
MaxSn == 1             \* highest sequence number of the events offered
NumVariants == 2       \* competing events per (identifier, sequence number)
NumWriters == 2        \* threads calling add_kel_finalized_event
MaxTables == 2         \* escrow tables created
MaxClones == 2         \* NotificationBus handles held by the program
MaxEntries == 2        \* digests held by the escrow tables, in total
MaxReceipts == 2       \* receipts held by the two receipt tables, in total
MaxCouplets == 3       \* couplets stored under one digest
MaxIndexed == 3        \* digests held by a MemorySequencedEventDb on its own
WordBits == 3          \* bits of the unsigned words start and limit are drawn from

(***************************************************************************)
(* notification.rs: Notification, JustNotification and the conversion      *)
(***************************************************************************)
NotificationVariants ==
    << "DupliciousEvent", "KeyEventAdded", "OutOfOrder", "PartiallySigned",
       "PartiallyWitnessed", "ReceiptAccepted", "ReceiptEscrowed",
       "ReceiptOutOfOrder", "TransReceiptOutOfOrder", "MissingDelegatingEvent" >>

JustNotificationVariants ==
    << "DuplicitousEvent", "KeyEventAdded", "OutOfOrder", "PartiallySigned",
       "PartiallyWitnessed", "ReceiptAccepted", "ReceiptEscrowed",
       "ReceiptOutOfOrder", "TransReceiptOutOfOrder", "MissingDelegatingEvent" >>

Min(a, b) == IF a < b THEN a ELSE b

Notification == { NotificationVariants[i] : i \in 1..Min(NumKinds, 10) }

JustNotification == { JustNotificationVariants[i] : i \in 1..Min(NumKinds, 10) }

\* impl From<&Notification> for JustNotification
JustNotificationFrom(notification) ==
    CASE notification = "KeyEventAdded" -> "KeyEventAdded"
      [] notification = "OutOfOrder" -> "OutOfOrder"
      [] notification = "PartiallySigned" -> "PartiallySigned"
      [] notification = "PartiallyWitnessed" -> "PartiallyWitnessed"
      [] notification = "ReceiptAccepted" -> "ReceiptAccepted"
      [] notification = "ReceiptEscrowed" -> "ReceiptEscrowed"
      [] notification = "ReceiptOutOfOrder" -> "ReceiptOutOfOrder"
      [] notification = "TransReceiptOutOfOrder" -> "TransReceiptOutOfOrder"
      [] notification = "DupliciousEvent" -> "DuplicitousEvent"
      [] notification = "MissingDelegatingEvent" -> "MissingDelegatingEvent"

Observers == 1..NumObservers

\* Result<(), Error>
Ok == [ok |-> TRUE, err |-> 0]
Err(e) == [ok |-> FALSE, err |-> e]

\* Error::SemanticError("InProcessDispatch: bus back-reference not set")
BusNotSet == 100

\* the error an observer returns from its own Notifier::notify
ObserverError(o) == o

\* Vec<JustNotification> arguments of register_observer
NotificationLists ==
    { <<k>> : k \in JustNotification }
        \cup { <<k1, k2>> : k1 \in JustNotification, k2 \in JustNotification }

(***************************************************************************)
(* NotificationBus handles and the dispatch they point to                  *)
(***************************************************************************)
\* the InProcessDispatch that NotificationBus::new allocates
TheDispatch == 1

\* NotificationBus { inner }: a pointer to a dispatch object
NotificationBus(inner) == [inner |-> inner]

\* no handle
NoBus == NotificationBus(0)

\* #[derive(Clone)] on NotificationBus: the Arc is cloned, not the dispatch
Clone(b) == NotificationBus(b.inner)

\* OnceLock::new
OnceLockNew == [set |-> FALSE, value |-> NoBus]

\* a faulty variant of OnceLockSet: the value is never stored
OnceLockSetSkipped(cell, value) == cell

\* OnceLock::set: stores the value unless one is stored already
OnceLockSet(cell, value) ==
    IF cell.set THEN cell ELSE [set |-> TRUE, value |-> value]

\* HashMap::new() of InProcessDispatch::new
EmptyRegistry == [k \in JustNotification |-> <<>>]

\* the observers field of a dispatch object
RegistryOf(inner) ==
    IF inner \in DOMAIN observers THEN observers[inner] ELSE EmptyRegistry

\* the handles in the program's hands
Handles == { clones[i] : i \in 1..Len(clones) }

(***************************************************************************)
(* The publishing thread: dispatch frames                                  *)
(***************************************************************************)
\* a call of NotificationBus::notify -> InProcessDispatch::dispatch through
\* the handle b
NewFrame(notification, b) ==
    [ n          |-> notification,
      inner      |-> b.inner,   \* self.inner
      handle     |-> NoBus,     \* the bus handed to the observers
      kind       |-> JustNotificationFrom(notification),
      pc         |-> "lock",    \* "lock" | "loop" | "wait" | "obs" | "write"
      idx        |-> 1,         \* position of `for esc in obs.iter()`
      registered |-> <<>>,      \* the list the read guard gave
      log        |-> <<>>,      \* observers invoked, with their results
      nested     |-> Ok,        \* result of the cascaded notify
      nestedAll  |-> TRUE ]     \* every cascaded dispatch delivered to all

NoDispatch ==
    [ valid |-> FALSE, n |-> "", kind |-> "", registered |-> <<>>, log |-> <<>>,
      res |-> Ok, depth |-> 0, nestedAll |-> TRUE, inner |-> 0, handle |-> NoBus ]

Top == stack[Len(stack)]

SetTop(f) == [stack EXCEPT ![Len(stack)] = f]

\* RwLock::read: blocks while a writer waits, when the lock prefers writers
CanRead == regPc # "wait" \/ ~write_preferring

\* RwLock::write: blocks while read guards are held
CanWrite == readers = 0

\* `esc.notify(notification, bus)?`: an Err leaves dispatch at once
Propagate(out) == ~out.ok

\* the frame returns `res` to its caller; `held` says whether it holds a guard
ExitFrame(f, res, held) ==
    /\ readers' = IF held THEN readers - 1 ELSE readers
    /\ last' = [ valid |-> TRUE, n |-> f.n, kind |-> f.kind,
                 registered |-> f.registered, log |-> f.log, res |-> res,
                 depth |-> Len(stack), nestedAll |-> f.nestedAll,
                 inner |-> f.inner, handle |-> f.handle ]
    /\ stack' =
         IF Len(stack) = 1 THEN <<>>
         ELSE LET parent == stack[Len(stack) - 1]
                  all == Len(f.log) = Len(f.registered)
              IN  Append(SubSeq(stack, 1, Len(stack) - 2),
                         [parent EXCEPT !.pc = "obs", !.nested = res,
                                        !.nestedAll = @ /\ all /\ f.nestedAll])

\* the observer at Top.idx has returned `out`
ObserverReturned(out) ==
    LET f == [Top EXCEPT !.log = Append(@, [obs |-> Top.registered[Top.idx],
                                            out |-> out])]
    IN  IF Propagate(out)
        THEN ExitFrame(f, out, TRUE)
        ELSE /\ stack' = SetTop([f EXCEPT !.idx = @ + 1, !.pc = "loop"])
             /\ UNCHANGED <<readers, last>>

\* NotificationBus::notify, called by the publisher
notify ==
    /\ stack = <<>>
    /\ \E n \in Notification, b \in Handles : stack' = <<NewFrame(n, b)>>
    /\ UNCHANGED <<receiptVars, dbVars, kelVars, seqVars, escrowVars, observers, bus, clones, readers, write_preferring, regPc, regArgs, last>>

\* dispatch: self.observers.read(), then self.bus.get()
dispatch_lock ==
    /\ stack # <<>>
    /\ Top.pc = "lock"
    /\ CanRead
    /\ IF ~bus.set
       THEN ExitFrame(Top, Err(BusNotSet), FALSE)
       ELSE /\ readers' = readers + 1
            /\ stack' = SetTop([Top EXCEPT
                             !.pc = "loop",
                             !.handle = bus.value,
                             !.registered = RegistryOf(Top.inner)[Top.kind]])
            /\ UNCHANGED last
    /\ UNCHANGED <<receiptVars, dbVars, kelVars, seqVars, escrowVars, observers, bus, clones, write_preferring, regPc, regArgs>>

\* dispatch: one turn of the loop, the observer returns without publishing
dispatch_invoke ==
    /\ stack # <<>>
    /\ Top.pc = "loop"
    /\ Top.idx <= Len(Top.registered)
    /\ \E out \in {Ok, Err(ObserverError(Top.registered[Top.idx]))} :
           ObserverReturned(out)
    /\ UNCHANGED <<receiptVars, dbVars, kelVars, seqVars, escrowVars, observers, bus, clones, write_preferring, regPc, regArgs>>

\* dispatch: one turn of the loop, the observer calls notify (a cascade) on
\* the bus it was handed or on a handle of its own
dispatch_cascade ==
    /\ stack # <<>>
    /\ Top.pc = "loop"
    /\ Top.idx <= Len(Top.registered)
    /\ Len(stack) < MaxDepth
    /\ \E n \in Notification, b \in {Top.handle} \cup Handles :
           stack' = Append(SetTop([Top EXCEPT !.pc = "wait"]), NewFrame(n, b))
    /\ UNCHANGED <<receiptVars, dbVars, kelVars, seqVars, escrowVars, observers, bus, clones, readers, write_preferring, regPc, regArgs, last>>

\* the cascading observer returns after its nested notify came back
observer_resume ==
    /\ stack # <<>>
    /\ Top.pc = "obs"
    /\ \E out \in {Ok, Top.nested, Err(ObserverError(Top.registered[Top.idx]))} :
           ObserverReturned(out)
    /\ UNCHANGED <<receiptVars, dbVars, kelVars, seqVars, escrowVars, observers, bus, clones, write_preferring, regPc, regArgs>>

\* dispatch: one turn of the loop, the observer calls register_observer on a
\* bus handle: the dispatching thread reaches self.observers.write() with the
\* read guard of its own dispatch still held
dispatch_register ==
    /\ stack # <<>>
    /\ Top.pc = "loop"
    /\ Top.idx <= Len(Top.registered)
    /\ stack' = SetTop([Top EXCEPT !.pc = "write"])
    /\ UNCHANGED <<receiptVars, dbVars, kelVars, seqVars, escrowVars, observers, bus, clones, readers, write_preferring, regPc, regArgs, last>>

\* RwLock::write on a lock the calling thread holds for reading blocks for
\* ever or panics, as the platform's lock decides (std: "might panic when
\* called if the lock is already held by the current thread"). Blocking is to
\* stay at "write"; this is the panic: the thread unwinds out of every
\* dispatch on its stack and the read guards are dropped
write_panics ==
    /\ stack # <<>>
    /\ Top.pc = "write"
    /\ stack' = <<>>
    /\ readers' = 0
    /\ UNCHANGED <<receiptVars, dbVars, kelVars, seqVars, escrowVars, observers, bus, clones, write_preferring, regPc, regArgs, last>>

\* dispatch: the loop is over, Ok(())
dispatch_done ==
    /\ stack # <<>>
    /\ Top.pc = "loop"
    /\ Top.idx > Len(Top.registered)
    /\ ExitFrame(Top, Ok, TRUE)
    /\ UNCHANGED <<receiptVars, dbVars, kelVars, seqVars, escrowVars, observers, bus, clones, write_preferring, regPc, regArgs>>

(***************************************************************************)
(* The registering thread                                                  *)
(***************************************************************************)
RECURSIVE PushAll(_, _, _)
\* for notification in notifications { entry(notification).or_default().push(observer) }
PushAll(obs, observer, notifications) ==
    IF notifications = <<>> THEN obs
    ELSE PushAll([obs EXCEPT ![Head(notifications)] = Append(@, observer)],
                 observer, Tail(notifications))

NoArgs == [observer |-> 0, notifications |-> <<>>, inner |-> 0]

\* NotificationBus::register_observer is called: the thread reaches write()
register_observer_call ==
    /\ regPc = "idle"
    /\ \E o \in Observers, ns \in NotificationLists, b \in Handles :
         /\ \A k \in JustNotification :
                Len(PushAll(RegistryOf(b.inner), o, ns)[k]) <= MaxRegistered
         /\ regArgs' = [observer |-> o, notifications |-> ns, inner |-> b.inner]
    /\ regPc' = "wait"
    /\ UNCHANGED <<receiptVars, dbVars, kelVars, seqVars, escrowVars, observers, bus, clones, readers, write_preferring, stack, last>>

\* InProcessDispatch::register_observer with the write guard
register_observer ==
    /\ regPc = "wait"
    /\ CanWrite
    /\ observers' =
         [d \in DOMAIN observers \cup {regArgs.inner} |->
             IF d = regArgs.inner
             THEN PushAll(RegistryOf(d), regArgs.observer, regArgs.notifications)
             ELSE observers[d]]
    /\ regPc' = "idle"
    /\ regArgs' = NoArgs
    /\ UNCHANGED <<receiptVars, dbVars, kelVars, seqVars, escrowVars, bus, clones, readers, write_preferring, stack, last>>

\* NotificationBus as Clone: a handle is cloned, from one in the program's
\* hands or from the one observers are handed
bus_clone ==
    /\ Len(clones) < MaxClones
    /\ \E b \in Handles \cup (IF bus.set THEN {bus.value} ELSE {}) :
           clones' = Append(clones, Clone(b))
    /\ UNCHANGED <<receiptVars, dbVars, kelVars, seqVars, escrowVars, observers, bus, readers, write_preferring, stack, regPc, regArgs, last>>

\* NotificationBus::new
InitBus ==
    /\ observers = [d \in {TheDispatch} |-> EmptyRegistry]
    /\ bus = OnceLockSet(OnceLockNew, Clone(NotificationBus(TheDispatch)))
    /\ clones = <<NotificationBus(TheDispatch)>>
    /\ readers = 0
    /\ write_preferring \in BOOLEAN
    /\ stack = <<>>
    /\ regPc = "idle"
    /\ regArgs = NoArgs
    /\ last = NoDispatch

NextBus ==
    \/ notify
    \/ dispatch_lock
    \/ dispatch_invoke
    \/ dispatch_cascade
    \/ observer_resume
    \/ dispatch_register
    \/ write_panics
    \/ dispatch_done
    \/ register_observer_call
    \/ register_observer
    \/ bus_clone


(***************************************************************************)
(* memory.rs: events, identifier state, HashMap and Vec helpers            *)
(***************************************************************************)
Prefixes == {"I", "J"}

PrefixIndex(p) == IF p = "I" THEN 1 ELSE 2

\* Option<SelfAddressingIdentifier>::None
NoDigest == 0

\* the SAID of the v-th event offered for (p, sn)
Said(p, sn, v) == PrefixIndex(p) * 100 + sn * 10 + v

EventType(sn) == IF sn = 0 THEN "icp" ELSE IF sn % 2 = 1 THEN "rot" ELSE "ixn"

\* KeriEvent<KeyEvent>: variant v of the event of p at sn. Variant v chains to
\* variant v; an establishment event declares key set `keys` and commits to
\* the key set `next`, an interaction event declares none.
KeyEvent(p, sn, v) ==
    [ prefix |-> p,
      sn     |-> sn,
      type   |-> EventType(sn),
      digest |-> Said(p, sn, v),
      prior  |-> IF sn = 0 THEN NoDigest ELSE Said(p, sn - 1, v),
      keys   |-> IF EventType(sn) = "ixn" THEN 0 ELSE v * 10 + sn,
      next   |-> IF EventType(sn) = "ixn" THEN 0 ELSE v * 10 + sn + 1 + (sn % 2) ]

KeyEvents == { KeyEvent("I", sn, v) : sn \in 0..MaxSn, v \in 1..NumVariants }

\* Vec<IndexedSignature>
SignatureLists == { <<1>>, <<2, 3>> }

\* SignedEventMessage
SignedEventMessage(e, sigs) == [event_message |-> e, signatures |-> sigs]

SignedEventMessages ==
    { SignedEventMessage(e, sigs) : e \in KeyEvents, sigs \in SignatureLists }

\* the messages offered to add_kel_finalized_event
KelMessages == { SignedEventMessage(e, <<1>>) : e \in KeyEvents }

\* Timestamped::new (the wall-clock field is left out)
Timestamped(m) == [signed_event_message |-> m]

\* IdentifierState::default()
DefaultState ==
    [ prefix |-> "", sn |-> 0, last_event_digest |-> NoDigest,
      current |-> 0, next |-> 0 ]

\* IdentifierState::apply: Ok(new state) or Err
apply(state, e) ==
    CASE e.type = "icp" ->
           IF state = DefaultState /\ e.sn = 0
           THEN [ ok |-> TRUE,
                  state |-> [ prefix |-> e.prefix, sn |-> 0,
                              last_event_digest |-> e.digest,
                              current |-> e.keys, next |-> e.next ] ]
           ELSE [ok |-> FALSE, state |-> state]
      [] e.type = "rot" ->
           IF /\ state # DefaultState
              /\ e.prefix = state.prefix
              /\ e.sn = state.sn + 1
              /\ e.prior = state.last_event_digest
              /\ e.keys = state.next
           THEN [ ok |-> TRUE,
                  state |-> [ prefix |-> state.prefix, sn |-> e.sn,
                              last_event_digest |-> e.digest,
                              current |-> e.keys, next |-> e.next ] ]
           ELSE [ok |-> FALSE, state |-> state]
      [] OTHER ->
           IF /\ state # DefaultState
              /\ e.prefix = state.prefix
              /\ e.sn = state.sn + 1
              /\ e.prior = state.last_event_digest
           THEN [ ok |-> TRUE,
                  state |-> [state EXCEPT !.sn = e.sn,
                                          !.last_event_digest = e.digest] ]
           ELSE [ok |-> FALSE, state |-> state]

\* HashMap::insert
Insert(map, key, value) ==
    [k \in DOMAIN map \cup {key} |-> IF k = key THEN value ELSE map[k]]

\* HashMap::get(..).cloned().unwrap_or_default() for a map of lists
GetOrEmpty(map, key) == IF key \in DOMAIN map THEN map[key] ELSE <<>>

\* entry(key).or_default().push(value)
PushEntry(map, key, value) == Insert(map, key, Append(GetOrEmpty(map, key), value))

EmptyMap == [k \in {} |-> 0]

\* the elements of a Vec (what Vec::contains looks through)
Elements(list) == { list[i] : i \in 1..Len(list) }

\* no element of the list occurs twice
NoRepeats(list) == Cardinality(Elements(list)) = Len(list)

\* states.read().get(id).cloned().unwrap_or_default()
CurrentState(id) == IF id \in DOMAIN states THEN states[id] ELSE DefaultState

\* log_event_internal: self.events.write().insert(digest, timestamped)
LogEventsInsert(map, m) ==
    IF m.event_message.digest # NoDigest
    THEN Insert(map, m.event_message.digest, Timestamped(m))
    ELSE map

\* log_event_internal: self.signatures.write().insert(digest, signatures)
LogSignaturesInsert(map, m) ==
    IF m.event_message.digest # NoDigest
    THEN Insert(map, m.event_message.digest, m.signatures)
    ELSE map

\* a faulty variant of StatesInsert: the state is stored only over an existing entry
StatesInsertIfPresent(map, id, new_state) ==
    IF id \in DOMAIN map THEN Insert(map, id, new_state) ELSE map

\* add_kel_finalized_event: self.states.write().insert(id, new_state)
StatesInsert(map, id, new_state) == Insert(map, id, new_state)

\* a faulty variant of KelPush: the event is put in front of the list
KelPushFront(map, id, m) ==
    Insert(map, id, <<Timestamped(m)>> \o GetOrEmpty(map, id))

\* a faulty variant of KelPush: the event replaces the list
KelReplace(map, id, m) == Insert(map, id, <<Timestamped(m)>>)

\* add_kel_finalized_event: events.write().entry(id).or_default().push(..)
KelPush(map, id, m) == PushEntry(map, id, Timestamped(m))

\* get_kel_finalized_events(BySn { id, sn })
BySn(id, sn) ==
    SelectSeq(GetOrEmpty(events, id),
              LAMBDA t : t.signed_event_message.event_message.sn = sn)

\* the unsigned words: u64, at the width the model is checked at
WordMax == 2^WordBits - 1

Words == 0..WordMax

\* `start + limit` on unsigned words: without overflow the sum; with
\* overflow a panic where the build checks arithmetic (debug profile) and the
\* sum modulo 2^width where it does not (release profile)
CheckedAdd(a, b) ==
    IF a + b <= WordMax
    THEN { [panic |-> FALSE, value |-> a + b] }
    ELSE { [panic |-> TRUE, value |-> 0],
           [panic |-> FALSE, value |-> (a + b) % 2^WordBits] }

\* the sequence number of a stored event
SnOf(t) == t.signed_event_message.event_message.sn

\* get_kel_finalized_events(Range { id, start, limit }), lines 154-167: the
\* outcomes it can have. `&&` evaluates start + limit only for an event with
\* sn >= start, so the sum is computed only if the identifier has one
Range(id, start, limit) ==
    IF id \notin DOMAIN events
    THEN { [panic |-> FALSE, some |-> FALSE, events |-> <<>>] }
    ELSE LET evts == events[id]
         IN  IF \A i \in 1..Len(evts) : ~(SnOf(evts[i]) >= start)
             THEN { [panic |-> FALSE, some |-> TRUE, events |-> <<>>] }
             ELSE { IF upper.panic
                    THEN [panic |-> TRUE, some |-> FALSE, events |-> <<>>]
                    ELSE [panic |-> FALSE, some |-> TRUE,
                          events |-> SelectSeq(evts,
                              LAMBDA t : SnOf(t) >= start /\ SnOf(t) < upper.value)] :
                        upper \in CheckedAdd(start, limit) }

(***************************************************************************)
(* MemoryDatabase::add_kel_finalized_event, one lock acquisition a step    *)
(***************************************************************************)
Writers == 1..NumWriters

\* the threads of SpecKel all work on one identifier
ConcurrentIds == {"I"}

Idle ==
    [ pc |-> "idle", event |-> SignedEventMessage(KeyEvent("I", 0, 1), <<1>>),
      id |-> "I", current_state |-> DefaultState, new_state |-> DefaultState ]

InFlight(t) == writer[t].pc # "idle"

\* a thread calls add_kel_finalized_event(event, id); lines 76-83: read the
\* current state of id, apply the event to it, `?`
add_kel_read_state(t) ==
    /\ writer[t].pc = "idle"
    /\ \E m \in KelMessages, id \in ConcurrentIds :
         LET cur == CurrentState(id)
             res == apply(cur, m.event_message)
         IN  IF res.ok
             THEN writer' = [writer EXCEPT ![t] =
                      [ pc |-> "write_state", event |-> m, id |-> id,
                        current_state |-> cur, new_state |-> res.state ]]
             ELSE UNCHANGED writer
    /\ UNCHANGED <<receiptVars, busVars, escrowVars, dbVars, reader, seqVars>>

\* line 84: self.states.write().insert(id, new_state)
add_kel_write_state(t) ==
    /\ writer[t].pc = "write_state"
    /\ states' = StatesInsert(states, writer[t].id, writer[t].new_state)
    /\ writer' = [writer EXCEPT ![t].pc = "log_events"]
    /\ UNCHANGED <<receiptVars, busVars, escrowVars, events, log_events, log_signatures, reader, seqVars>>

\* line 87, log_event_internal: the events table of the log
add_kel_log_events(t) ==
    /\ writer[t].pc = "log_events"
    /\ log_events' = LogEventsInsert(log_events, writer[t].event)
    /\ writer' = [writer EXCEPT ![t].pc = "log_signatures"]
    /\ UNCHANGED <<receiptVars, busVars, escrowVars, states, events, log_signatures, reader, seqVars>>

\* line 87, log_event_internal: the signatures table of the log
add_kel_log_signatures(t) ==
    /\ writer[t].pc = "log_signatures"
    /\ log_signatures' = LogSignaturesInsert(log_signatures, writer[t].event)
    /\ writer' = [writer EXCEPT ![t].pc = "push"]
    /\ UNCHANGED <<receiptVars, busVars, escrowVars, states, events, log_events, reader, seqVars>>

\* lines 90-98: push onto the KEL of id, Ok(())
add_kel_push(t) ==
    /\ writer[t].pc = "push"
    /\ events' = KelPush(events, writer[t].id, writer[t].event)
    /\ writer' = [writer EXCEPT ![t] = Idle]
    /\ UNCHANGED <<receiptVars, busVars, escrowVars, states, log_events, log_signatures, reader, seqVars>>

(***************************************************************************)
(* MemoryDatabase: whole calls, one after the other                        *)
(***************************************************************************)
NoCall ==
    [ valid |-> FALSE, op |-> "", event |-> Idle.event, id |-> "I", ok |-> FALSE,
      fresh |-> FALSE ]

Fresh == states = EmptyMap /\ events = EmptyMap /\ log_events = EmptyMap

\* a faulty variant of Rejected: the error of apply is dropped
RejectedNever(new_state) == FALSE

\* `current_state.apply(&event.event_message)?`: an Err leaves the call at once
Rejected(new_state) == ~new_state.ok

\* add_kel_finalized_event(event, id), lines 70-99
add_kel_finalized_event_of(m, id) ==
    /\ LET current_state == CurrentState(id)
           new_state == apply(current_state, m.event_message)
       IN  /\ lastCall' = [ valid |-> TRUE, op |-> "add_kel_finalized_event",
                            event |-> m, id |-> id, ok |-> new_state.ok,
                            fresh |-> Fresh ]
           /\ IF Rejected(new_state)
              THEN UNCHANGED dbVars
              ELSE /\ states' = StatesInsert(states, id, new_state.state)
                   /\ log_events' = LogEventsInsert(log_events, m)
                   /\ log_signatures' = LogSignaturesInsert(log_signatures, m)
                   /\ events' = KelPush(events, id, m)
    /\ UNCHANGED <<receiptVars, busVars, escrowVars, kelVars>>

\* add_kel_finalized_event with any of the messages, for any identifier
add_kel_finalized_event ==
    \E m \in SignedEventMessages, id \in Prefixes : add_kel_finalized_event_of(m, id)

\* Receipt: the body of a receipt of event e
Receipt(e) ==
    [prefix |-> e.prefix, sn |-> e.sn, receipted_event_digest |-> e.digest]

\* Nontransferable::Couplet(signer, signature)
Couplet(signer, signature) == <<signer, signature>>

\* SignedNontransferableReceipt
SignedNontransferableReceipt(body, couplets) ==
    [body |-> body, signatures |-> couplets]

\* SignedTransferableReceipt
SignedTransferableReceipt(body, validator_seal, signatures) ==
    [body |-> body, validator_seal |-> validator_seal, signatures |-> signatures]

\* Transferable::Seal(validator_seal, signatures)
TransferableSeal(validator_seal, signatures) ==
    [validator_seal |-> validator_seal, signatures |-> signatures]

\* the receipts offered to add_receipt_nt: of the first inception of I, by
\* either of two witnesses
NontransReceipts ==
    { SignedNontransferableReceipt(Receipt(KeyEvent("I", 0, 1)),
                                   <<Couplet(w, Said(w, 0, 1))>>) : w \in Prefixes }

\* the receipt offered to add_receipt_t: of the same event, by validator J
TransReceipts ==
    { SignedTransferableReceipt(Receipt(KeyEvent("I", 0, 1)),
                                KeyEvent("J", 0, 1).digest, <<1>>) }

\* the identifier the receipts are stored for
ReceiptIds == {"I"}

RECURSIVE SumLen(_, _)
SumLen(map, keys) ==
    IF keys = {} THEN 0
    ELSE LET k == CHOOSE x \in keys : TRUE
         IN  Len(map[k]) + SumLen(map, keys \ {k})

\* receipts held by the two receipt tables
StoredReceipts ==
    SumLen(receipts_t, DOMAIN receipts_t) + SumLen(receipts_nt, DOMAIN receipts_nt)

ReceiptCall(op, id) ==
    [NoCall EXCEPT !.valid = TRUE, !.op = op, !.id = id, !.ok = TRUE]

\* add_receipt_t(receipt, id), lines 101-115
add_receipt_t(receipt, id) ==
    /\ StoredReceipts < MaxReceipts
    /\ LET sn == receipt.body.sn
           transferable == TransferableSeal(receipt.validator_seal, receipt.signatures)
       IN  receipts_t' = PushEntry(receipts_t, <<id, sn>>, transferable)
    /\ lastCall' = ReceiptCall("add_receipt_t", id)
    /\ UNCHANGED <<busVars, dbVars, kelVars, escrowVars, receipts_nt, nontrans_couplets>>

\* add_receipt_nt(receipt, id), lines 117-130
add_receipt_nt(receipt, id) ==
    /\ StoredReceipts < MaxReceipts
    /\ LET sn == receipt.body.sn
       IN  receipts_nt' = PushEntry(receipts_nt, <<id, sn>>, receipt)
    /\ lastCall' = ReceiptCall("add_receipt_nt", id)
    /\ UNCHANGED <<busVars, dbVars, kelVars, escrowVars, receipts_t, nontrans_couplets>>

\* get_receipts_t(BySn { id, sn }): None is the empty list here
get_receipts_t(id, sn) == GetOrEmpty(receipts_t, <<id, sn>>)

\* get_receipts_nt(BySn { id, sn })
get_receipts_nt(id, sn) == GetOrEmpty(receipts_nt, <<id, sn>>)

\* accept_to_kel(_event), lines 197-201: Ok(()) and nothing else
accept_to_kel ==
    /\ \E e \in KeyEvents :
           lastCall' = [ReceiptCall("accept_to_kel", e.prefix) EXCEPT
                           !.event = SignedEventMessage(e, <<1>>)]
    /\ UNCHANGED <<busVars, dbVars, kelVars, escrowVars, receiptVars>>

(***************************************************************************)
(* memory.rs: MemoryLogDatabase, MemorySequencedEventDb, MemoryEscrowDb     *)
(***************************************************************************)
\* an event whose digest() is an Err
Undigested == [KeyEvent("I", 0, 1) EXCEPT !.digest = NoDigest]

\* the events offered to the log and the escrow tables
EscrowEvents == { KeyEvent("I", 0, 1), KeyEvent("I", 1, 1) }

\* the first event comes with either signature list
EscrowMessages ==
    { SignedEventMessage(e, <<1>>) : e \in EscrowEvents }
        \cup { SignedEventMessage(KeyEvent("I", 0, 1), <<2, 3>>),
               SignedEventMessage(Undigested, <<1>>) }

EscrowSns == 0..1

\* a digest under which no event is known
UnknownSaid == Said("J", 9, 9)

\* the digests offered to save_digest
EscrowDigests == { KeyEvent("I", 0, 1).digest, UnknownSaid }

EscrowNames == { "out_of_order", "partially_signed" }

Tables == 1..Len(sequenced)

RECURSIVE Entries(_)
\* digests held by the tables 1..n
Entries(n) ==
    IF n = 0 THEN 0
    ELSE SumLen(sequenced[n], DOMAIN sequenced[n]) + Entries(n - 1)

Room == Entries(Len(sequenced)) < MaxEntries

\* MemorySequencedEventDb::insert
SequencedInsert(data, identifier, sn, digest) ==
    PushEntry(data, <<identifier, sn>>, digest)

\* MemorySequencedEventDb::get
SequencedGet(data, identifier, sn) == GetOrEmpty(data, <<identifier, sn>>)

\* a faulty variant of SequencedRemove: retain keeps the digest and drops the rest
SequencedRetainOnly(data, identifier, sn, said) ==
    IF <<identifier, sn>> \in DOMAIN data
    THEN [data EXCEPT ![<<identifier, sn>>] = SelectSeq(@, LAMBDA d : d = said)]
    ELSE data

RECURSIVE RemoveFirst(_, _)
\* the list without the first occurrence of d
RemoveFirst(list, d) ==
    IF list = <<>> THEN <<>>
    ELSE IF Head(list) = d THEN Tail(list)
    ELSE <<Head(list)>> \o RemoveFirst(Tail(list), d)

\* a faulty variant of SequencedRemove: only the first occurrence is removed
SequencedRemoveFirst(data, identifier, sn, said) ==
    IF <<identifier, sn>> \in DOMAIN data
    THEN [data EXCEPT ![<<identifier, sn>>] = RemoveFirst(@, said)]
    ELSE data

\* MemorySequencedEventDb::remove
SequencedRemove(data, identifier, sn, said) ==
    IF <<identifier, sn>> \in DOMAIN data
    THEN [data EXCEPT ![<<identifier, sn>>] = SelectSeq(@, LAMBDA d : d # said)]
    ELSE data

\* MemoryLogDatabase::get_signed_event
get_signed_event(said) ==
    IF said \in DOMAIN log_events
    THEN [some |-> TRUE, event |-> log_events[said].signed_event_message]
    ELSE [some |-> FALSE, event |-> Idle.event]

RECURSIVE IterOrders(_)
\* HashMap::iter visits the entries in an order the hasher decides: the keys
\* in every order
IterOrders(keys) ==
    IF keys = {} THEN { <<>> }
    ELSE UNION { { <<k>> \o order : order \in IterOrders(keys \ {k}) } : k \in keys }

RECURSIVE FlatMap(_, _)
\* .flat_map(|(_, v)| v.clone()) over the entries in the order given
FlatMap(data, order) ==
    IF order = <<>> THEN <<>>
    ELSE data[Head(order)] \o FlatMap(data, Tail(order))

\* a faulty variant of get_greater_than: the lower bound is exclusive
get_strictly_greater_than(data, identifier, sn) ==
    { FlatMap(data, SelectSeq(order, LAMBDA k : k[1] = identifier /\ k[2] > sn)) :
          order \in IterOrders(DOMAIN data) }

\* MemorySequencedEventDb::get_greater_than: the lists it can return
get_greater_than(data, identifier, sn) ==
    { FlatMap(data, SelectSeq(order, LAMBDA k : k[1] = identifier /\ k[2] >= sn)) :
          order \in IterOrders(DOMAIN data) }

RECURSIVE Hydrate(_)
\* filter_map(|d| self.log.get_signed_event(&d).ok().flatten()
\*                     .map(|t| t.signed_event_message))
Hydrate(digests) ==
    IF digests = <<>> THEN <<>>
    ELSE LET found == get_signed_event(Head(digests))
         IN  (IF found.some THEN <<found.event>> ELSE <<>>) \o Hydrate(Tail(digests))

\* MemoryEscrowDb::get
escrow_get(t, identifier, sn) == Hydrate(SequencedGet(sequenced[t], identifier, sn))

\* MemoryEscrowDb::get_from_sn: the lists it can return
escrow_get_from_sn(t, identifier, sn) ==
    { Hydrate(digests) : digests \in get_greater_than(sequenced[t], identifier, sn) }

\* MemoryEscrowDb::contains
escrow_contains(t, id, sn, digest) ==
    digest \in Elements(SequencedGet(sequenced[t], id, sn))

\* MemoryLogDatabase::log_event / log_event_with_new_transaction
log_event(m) ==
    /\ log_events' = LogEventsInsert(log_events, m)
    /\ log_signatures' = LogSignaturesInsert(log_signatures, m)
    /\ UNCHANGED <<receiptVars, busVars, kelVars, seqVars, states, events, sequenced, escrow_db>>

\* MemoryDatabase::create_escrow_db
create_escrow_db(table_name) ==
    /\ Len(sequenced) < MaxTables
    /\ sequenced' = Append(sequenced, EmptyMap)
    /\ escrow_db' = Insert(escrow_db, table_name, Len(sequenced) + 1)
    /\ UNCHANGED <<receiptVars, busVars, kelVars, seqVars, dbVars>>

\* MemoryEscrowDb::save_digest
save_digest(t, id, sn, event_digest) ==
    /\ Room
    /\ sequenced' = [sequenced EXCEPT ![t] = SequencedInsert(@, id, sn, event_digest)]
    /\ UNCHANGED <<receiptVars, busVars, kelVars, seqVars, dbVars, escrow_db>>

\* MemoryEscrowDb::insert
escrow_insert(t, m) ==
    /\ Room
    /\ LET digest == m.event_message.digest
           sn == m.event_message.sn
           id == m.event_message.prefix
       IN  IF digest = NoDigest
              THEN UNCHANGED <<sequenced, log_events, log_signatures>>
              ELSE /\ sequenced' =
                        [sequenced EXCEPT ![t] = SequencedInsert(@, id, sn, digest)]
                   /\ log_events' = LogEventsInsert(log_events, m)
                   /\ log_signatures' = LogSignaturesInsert(log_signatures, m)
    /\ UNCHANGED <<receiptVars, busVars, kelVars, seqVars, states, events, escrow_db>>

\* MemoryEscrowDb::insert_key_value
escrow_insert_key_value(t, id, sn, m) ==
    /\ Room
    /\ LET digest == m.event_message.digest
       IN  IF digest = NoDigest
              THEN UNCHANGED <<sequenced, log_events, log_signatures>>
              ELSE /\ sequenced' =
                        [sequenced EXCEPT ![t] = SequencedInsert(@, id, sn, digest)]
                   /\ log_events' = LogEventsInsert(log_events, m)
                   /\ log_signatures' = LogSignaturesInsert(log_signatures, m)
    /\ UNCHANGED <<receiptVars, busVars, kelVars, seqVars, states, events, escrow_db>>

\* MemoryEscrowDb::remove
escrow_remove(t, e) ==
    /\ sequenced' =
         IF e.digest = NoDigest THEN sequenced
         ELSE [sequenced EXCEPT ![t] = SequencedRemove(@, e.prefix, e.sn, e.digest)]
    /\ UNCHANGED <<receiptVars, busVars, kelVars, seqVars, dbVars, escrow_db>>

(***************************************************************************)
(* memory.rs: one MemorySequencedEventDb called directly                   *)
(***************************************************************************)
\* the digests offered to insert and remove
IndexDigests == { KeyEvent("I", 0, 1).digest, KeyEvent("I", 1, 1).digest, UnknownSaid }

\* the one MemorySequencedEventDb of SpecIndex
TheIndex == 1

\* occurrences of d in a list
Count(list, d) == Len(SelectSeq(list, LAMBDA x : x = d))

\* history of a call on the index: for remove, the key, the digest and the
\* number of occurrences of the digest found under the key
IndexCall(op, key, said, found) ==
    [valid |-> TRUE, op |-> op, key |-> key, said |-> said, found |-> found]

\* MemorySequencedEventDb::insert, lines 417-430
sequenced_insert(identifier, sn, digest) ==
    /\ Entries(Len(sequenced)) < MaxIndexed
    /\ sequenced' = [sequenced EXCEPT
                        ![TheIndex] = SequencedInsert(@, identifier, sn, digest)]
    /\ lastCall' = IndexCall("insert", <<>>, NoDigest, 0)
    /\ UNCHANGED <<receiptVars, busVars, kelVars, dbVars, escrow_db>>

\* MemorySequencedEventDb::remove, lines 459-469
sequenced_remove(identifier, sn, said) ==
    /\ sequenced' = [sequenced EXCEPT
                        ![TheIndex] = SequencedRemove(@, identifier, sn, said)]
    /\ lastCall' = IndexCall("remove", <<identifier, sn>>, said,
                             Count(SequencedGet(sequenced[TheIndex], identifier, sn), said))
    /\ UNCHANGED <<receiptVars, busVars, kelVars, dbVars, escrow_db>>

(***************************************************************************)
(* memory.rs: MemoryLogDatabase, the nontransferable couplets of a digest   *)
(***************************************************************************)
\* the couplets of two witnesses
CoupletA == Couplet("I", Said("I", 0, 1))

CoupletB == Couplet("J", Said("J", 0, 1))

\* the receipts offered to log_receipt: of either of two events, carrying
\* one of the couplets or both
LogReceipts ==
    { SignedNontransferableReceipt(Receipt(e), couplets) :
          e \in EscrowEvents,
          couplets \in { <<CoupletA>>, <<CoupletB>>, <<CoupletA, CoupletB>> } }

\* the events logged beside the receipts
LogMessages == { SignedEventMessage(e, <<1>>) : e \in EscrowEvents }

\* the couplet lists offered to remove_nontrans_receipt
CoupletLists == { <<CoupletA>>, <<CoupletA, CoupletB>> }

\* MemoryLogDatabase::log_receipt_internal: entry(digest).or_default().extend(..)
LogReceiptExtend(map, receipt) ==
    LET digest == receipt.body.receipted_event_digest
    IN  Insert(map, digest, GetOrEmpty(map, digest) \o receipt.signatures)

\* MemoryLogDatabase::get_nontrans_couplets: None is the empty list here
get_nontrans_couplets(said) == GetOrEmpty(nontrans_couplets, said)

\* history of a receipt call on the log: for remove_nontrans_receipt, the
\* digest and the number of couplets it took out
CoupletCall(op, said, removed) ==
    [valid |-> TRUE, op |-> op, said |-> said, removed |-> removed]

\* MemoryLogDatabase::log_receipt / log_receipt_with_new_transaction
log_receipt(signed_receipt) ==
    /\ Len(get_nontrans_couplets(signed_receipt.body.receipted_event_digest))
           + Len(signed_receipt.signatures) <= MaxCouplets
    /\ nontrans_couplets' = LogReceiptExtend(nontrans_couplets, signed_receipt)
    /\ lastCall' = CoupletCall("log_receipt", NoDigest, 0)
    /\ UNCHANGED <<busVars, dbVars, kelVars, escrowVars, receipts_t, receipts_nt>>

\* a faulty variant of RetainNotIn: only the first couplet to remove is looked for
RetainNotHead(existing, to_remove) ==
    SelectSeq(existing, LAMBDA n : to_remove = <<>> \/ Head(to_remove) # n)

\* existing.retain(|n| !to_remove.contains(n))
RetainNotIn(existing, to_remove) ==
    SelectSeq(existing, LAMBDA n : \A i \in 1..Len(to_remove) : to_remove[i] # n)

\* MemoryLogDatabase::remove_nontrans_receipt / .._with_new_transaction
remove_nontrans_receipt(said, nontrans) ==
    /\ nontrans_couplets' =
         IF said \in DOMAIN nontrans_couplets
         THEN [nontrans_couplets EXCEPT ![said] = RetainNotIn(@, nontrans)]
         ELSE nontrans_couplets
    /\ lastCall' = CoupletCall("remove_nontrans_receipt", said,
                               Len(get_nontrans_couplets(said))
                                   - Len(RetainNotIn(get_nontrans_couplets(said), nontrans)))
    /\ UNCHANGED <<busVars, dbVars, kelVars, escrowVars, receipts_t, receipts_nt>>

InitEscrow ==
    /\ sequenced = <<>>
    /\ escrow_db = EmptyMap

(***************************************************************************)
(* A reader: get_key_state, get_kel_finalized_events(All), the log         *)
(***************************************************************************)
ReaderIdle ==
    [ pc |-> "idle", id |-> "I", some |-> FALSE, sn |-> 0, digest |-> NoDigest,
      kel_sns |-> {}, in_log |-> FALSE ]

\* get_key_state(id)
read_key_state ==
    /\ reader.pc = "idle"
    /\ \E id \in ConcurrentIds :
         reader' = [ pc |-> "kel", id |-> id, some |-> id \in DOMAIN states,
                     sn |-> CurrentState(id).sn,
                     digest |-> CurrentState(id).last_event_digest,
                     kel_sns |-> {}, in_log |-> FALSE ]
    /\ UNCHANGED <<receiptVars, busVars, escrowVars, dbVars, writer, seqVars>>

\* get_kel_finalized_events(All { id }): the sequence numbers it returns
read_kel ==
    /\ reader.pc = "kel"
    /\ LET kel == GetOrEmpty(events, reader.id)
       IN  reader' = [reader EXCEPT
               !.pc = "log",
               !.kel_sns = { kel[i].signed_event_message.event_message.sn :
                                 i \in 1..Len(kel) }]
    /\ UNCHANGED <<receiptVars, busVars, escrowVars, dbVars, writer, seqVars>>

\* get_log_db().get_signed_event(digest of the state's last event)
read_log ==
    /\ reader.pc = "log"
    /\ reader' = [reader EXCEPT !.pc = "done",
                                !.in_log = reader.digest \in DOMAIN log_events]
    /\ UNCHANGED <<receiptVars, busVars, escrowVars, dbVars, writer, seqVars>>

read_again ==
    /\ reader.pc = "done"
    /\ reader' = ReaderIdle
    /\ UNCHANGED <<receiptVars, busVars, escrowVars, dbVars, writer, seqVars>>

\* MemoryDatabase::new
InitDb ==
    /\ states = EmptyMap
    /\ events = EmptyMap
    /\ log_events = EmptyMap
    /\ log_signatures = EmptyMap

InitKelThreads ==
    /\ writer = [t \in Writers |-> Idle]
    /\ reader = ReaderIdle

InitSeq == lastCall = NoCall

InitReceipts ==
    /\ receipts_t = EmptyMap
    /\ receipts_nt = EmptyMap
    /\ nontrans_couplets = EmptyMap

InitKel ==
    /\ InitBus /\ InitDb /\ InitKelThreads /\ InitSeq /\ InitEscrow /\ InitReceipts
    /\ write_preferring = TRUE

NextKel ==
    \/ \E t \in Writers : add_kel_read_state(t)
    \/ \E t \in Writers : add_kel_write_state(t)
    \/ \E t \in Writers : add_kel_log_events(t)
    \/ \E t \in Writers : add_kel_log_signatures(t)
    \/ \E t \in Writers : add_kel_push(t)
    \/ read_key_state
    \/ read_kel
    \/ read_log
    \/ read_again

InitSeqDb == InitKel

NextSeq ==
    \/ add_kel_finalized_event

InitDbCalls == InitKel

\* every operation of MemoryDatabase as an EventDatabase, on one identifier
NextDb ==
    \/ \E m \in KelMessages, id \in ReceiptIds : add_kel_finalized_event_of(m, id)
    \/ \E receipt \in TransReceipts, id \in ReceiptIds : add_receipt_t(receipt, id)
    \/ \E receipt \in NontransReceipts, id \in ReceiptIds : add_receipt_nt(receipt, id)
    \/ accept_to_kel

InitEscrowDb == InitKel

NextEscrow ==
    \/ \E m \in EscrowMessages : log_event(m)
    \/ \E name \in EscrowNames : create_escrow_db(name)
    \/ \E t \in Tables, id \in Prefixes, sn \in EscrowSns, d \in EscrowDigests :
           save_digest(t, id, sn, d)
    \/ \E t \in Tables, m \in EscrowMessages : escrow_insert(t, m)
    \/ \E t \in Tables, id \in Prefixes, sn \in EscrowSns, m \in EscrowMessages :
           escrow_insert_key_value(t, id, sn, m)
    \/ \E t \in Tables, m \in EscrowMessages : escrow_remove(t, m.event_message)

InitBusDb ==
    /\ observers = [d \in {TheDispatch} |-> EmptyRegistry]
    /\ bus = OnceLockSet(OnceLockNew, Clone(NotificationBus(TheDispatch)))
    /\ clones = <<NotificationBus(TheDispatch)>>
    /\ readers = 0
    /\ write_preferring \in BOOLEAN
    /\ stack = <<>>
    /\ regPc = "idle"
    /\ regArgs = NoArgs
    /\ last = NoDispatch
    /\ states = EmptyMap /\ events = EmptyMap
    /\ log_events = EmptyMap /\ log_signatures = EmptyMap
    /\ writer = [t \in Writers |-> Idle] /\ reader = ReaderIdle
    /\ lastCall = NoCall
    /\ sequenced = <<>> /\ escrow_db = EmptyMap
    /\ receipts_t = EmptyMap /\ receipts_nt = EmptyMap
    /\ nontrans_couplets = EmptyMap

SpecBus == InitBusDb /\ [][NextBus]_vars

SpecKel == InitKel /\ [][NextKel]_vars

SpecSeq == InitSeqDb /\ [][NextSeq]_vars

SpecDb == InitDbCalls /\ [][NextDb]_vars

InitLog == InitKel

\* the receipt operations of MemoryLogDatabase, beside log_event
NextLog ==
    \/ \E m \in LogMessages : log_event(m)
    \/ \E signed_receipt \in LogReceipts : log_receipt(signed_receipt)
    \/ \E e \in EscrowEvents, nontrans \in CoupletLists :
           remove_nontrans_receipt(e.digest, nontrans)

SpecLog == InitLog /\ [][NextLog]_vars

SpecEscrow == InitEscrowDb /\ [][NextEscrow]_vars

InitPlaced == InitKel

\* the escrow operations that take an event
NextPlaced ==
    \/ \E name \in EscrowNames : create_escrow_db(name)
    \/ \E t \in Tables, m \in EscrowMessages : escrow_insert(t, m)
    \/ \E t \in Tables, id \in Prefixes, sn \in EscrowSns, m \in EscrowMessages :
           escrow_insert_key_value(t, id, sn, m)
    \/ \E t \in Tables, m \in EscrowMessages : escrow_remove(t, m.event_message)

SpecPlaced == InitPlaced /\ [][NextPlaced]_vars

\* MemorySequencedEventDb::new: one index, empty
InitIndex ==
    /\ observers = [d \in {TheDispatch} |-> EmptyRegistry]
    /\ bus = OnceLockSet(OnceLockNew, Clone(NotificationBus(TheDispatch)))
    /\ clones = <<NotificationBus(TheDispatch)>>
    /\ readers = 0
    /\ write_preferring = TRUE
    /\ stack = <<>>
    /\ regPc = "idle"
    /\ regArgs = NoArgs
    /\ last = NoDispatch
    /\ states = EmptyMap /\ events = EmptyMap
    /\ log_events = EmptyMap /\ log_signatures = EmptyMap
    /\ writer = [t \in Writers |-> Idle] /\ reader = ReaderIdle
    /\ lastCall = NoCall
    /\ sequenced = <<EmptyMap>> /\ escrow_db = EmptyMap
    /\ receipts_t = EmptyMap /\ receipts_nt = EmptyMap
    /\ nontrans_couplets = EmptyMap

NextIndex ==
    \/ \E id \in Prefixes, sn \in EscrowSns, d \in IndexDigests :
           sequenced_insert(id, sn, d)
    \/ \E id \in Prefixes, sn \in EscrowSns, d \in IndexDigests :
           sequenced_remove(id, sn, d)

SpecIndex == InitIndex /\ [][NextIndex]_vars

(***************************************************************************)
(* Claims about the notification bus (checked under SpecBus)               *)
(***************************************************************************)
\* the observers of a log, in invocation order
Invoked(log) == [i \in 1..Len(log) |-> log[i].obs]

Failures(log) == { i \in 1..Len(log) : ~log[i].out.ok }

FirstFailure(log) ==
    IF Failures(log) = {} THEN Ok
    ELSE log[CHOOSE i \in Failures(log) : \A j \in Failures(log) : i <= j].out

\* C2: when an observer registered for K returns an error, every observer
\* registered for K after it is still invoked for that notification: a
\* dispatch that has returned with a failure in it has invoked the whole list.
C2_FailureDoesNotStopDelivery ==
    (last.valid /\ Failures(last.log) # {})
        => \A i \in 1..Len(last.registered) :
               i <= Len(last.log) /\ last.log[i].obs = last.registered[i]

\* C3: notify of a notification of kind K invokes exactly the observers
\* registered for K, each once per registration, in registration order, and
\* with no observer registered for K it invokes none and returns Ok.
C3_ExactlyRegisteredInOrder ==
    last.valid
        => /\ last.kind = JustNotificationFrom(last.n)
           /\ Invoked(last.log) = last.registered
           /\ (last.registered = <<>> => last.res = Ok)

\* C3, the part the early return leaves alone: what a dispatch invokes is
\* always a prefix of the list registered for the notification's kind.
C3_InvokedIsPrefix ==
    last.valid
        => /\ Len(last.log) <= Len(last.registered)
           /\ \A i \in 1..Len(last.log) : last.log[i].obs = last.registered[i]

\* C4: the error notify returns is the error of the first failing observer in
\* registration order, it is returned at the end of the dispatch (when the
\* list registered for the kind has been delivered to), and when no observer
\* fails notify returns Ok.
C4_FirstErrorAtEnd ==
    last.valid
        => /\ last.res = FirstFailure(last.log)
           /\ Len(last.log) = Len(last.registered)

\* C4, the value alone: the result is the first failure of the observers
\* that were invoked, Ok when none failed.
C4_ResultIsFirstFailure ==
    last.valid => last.res = FirstFailure(last.log)

\* the publishing thread waits for a read guard behind a writer that waits
\* for the read guard the same thread holds further up its stack
RegistryDeadlock ==
    /\ Len(stack) >= 2
    /\ Top.pc = "lock"
    /\ regPc = "wait"
    /\ write_preferring

\* C5: a cascaded notify runs synchronously, delivers to all of its
\* observers before the outer dispatch invokes its next observer, and no
\* dispatch blocks for ever on the observer registry lock.
C5_CascadeDeliversAndTerminates ==
    /\ ~RegistryDeadlock
    /\ \A i \in 1..Len(stack) :
           (stack[i].pc = "loop" /\ stack[i].idx <= Len(stack[i].registered))
               => stack[i].nestedAll

\* every handle points to the dispatch NotificationBus::new made, no other
\* registry exists, and a dispatch holding its read guard iterates the list
\* that registry holds for the notification's kind
ClonesShareTheRegistry ==
    /\ \A b \in Handles : b.inner = TheDispatch
    /\ bus.set /\ bus.value.inner = TheDispatch
    /\ DOMAIN observers = {TheDispatch}
    /\ \A i \in 1..Len(stack) :
           stack[i].pc # "lock"
               => /\ stack[i].inner = TheDispatch
                  /\ stack[i].registered = observers[TheDispatch][stack[i].kind]

\* C17: all clones of a NotificationBus share one observer registry: an
\* observer registered through any clone is invoked by a matching notify
\* issued through any other clone, the handle passed to callbacks included,
\* whether it was registered before or after the clone was taken.
C17_RegisteredThroughAnyCloneIsInvoked ==
    /\ ClonesShareTheRegistry
    /\ last.valid
           => \A i \in 1..Len(last.registered) :
                  \E j \in 1..Len(last.log) : last.log[j].obs = last.registered[i]

\* C17, the part that holds: the clones, and the handle passed to callbacks,
\* share one registry, which every dispatch reads.
C17_ClonesShareTheRegistry == ClonesShareTheRegistry /\ Len(clones) >= 1

\* C18: for a bus made by NotificationBus::new the back-reference of the
\* dispatcher is set during construction and never changes: every dispatch
\* finds it set (notify never fails with "bus back-reference not set") and
\* hands its observers a handle onto the registry it iterates itself.
C18_BackReferenceSetOnce ==
    /\ bus = [set |-> TRUE, value |-> NotificationBus(TheDispatch)]
    /\ last.valid
           => /\ last.res # Err(BusNotSet)
              /\ last.handle = bus.value
              /\ last.handle.inner = last.inner
    /\ \A i \in 1..Len(stack) :
           stack[i].pc # "lock"
               => /\ stack[i].handle = bus.value
                  /\ stack[i].handle.inner = stack[i].inner

\* C18 witness: a cascaded dispatch, two deep, has invoked an observer and
\* returned, after a clone of the bus was taken.
C18_Witness ==
    /\ last.valid
    /\ last.depth >= 2
    /\ last.log # <<>>
    /\ Len(clones) >= 2

\* the dispatching thread is inside write(), called from an observer
\* callback, for a lock it holds a read guard on itself: the registration
\* cannot return, and neither can the dispatch
SelfDeadlock == stack # <<>> /\ Top.pc = "write"

\* C20: a dispatch and a registration that overlap both complete, whether
\* register_observer is called from another thread or from inside an
\* observer callback, also when the running observer cascades a notify; and
\* the observers registered receive the notifications published afterwards.
C20_OverlappingRegistrationCompletes ==
    /\ ~SelfDeadlock
    /\ ~RegistryDeadlock
    /\ last.valid
           => \A i \in 1..Len(last.registered) :
                  \E j \in 1..Len(last.log) : last.log[j].obs = last.registered[i]

\* C20, registration from inside a callback alone
C20_NoSelfDeadlock == ~SelfDeadlock

\* C20, registration from another thread during a cascade alone
C20_NoDeadlockBehindWriter == ~RegistryDeadlock

\* C20, the part that holds: a registration from another thread that
\* overlaps a dispatch which does not cascade waits for the read guard and
\* nothing else; every guard held belongs to a dispatch on the stack.
C20_GuardsBelongToDispatches ==
    readers = Cardinality({ i \in 1..Len(stack) : stack[i].pc # "lock" })

(***************************************************************************)
(* Claims about MemoryDatabase (SpecKel: threads; SpecSeq: whole calls)    *)
(***************************************************************************)
\* C1: a reader that observes get_key_state(I).sn = n, reading while another
\* thread runs add_kel_finalized_event for I, also finds the events with
\* sequence 0..n in the KEL and the state's last event in the log.
C1_StateNeverAheadOfEvents ==
    (reader.pc = "done" /\ reader.some)
        => /\ \A k \in 0..reader.sn : k \in reader.kel_sns
           /\ reader.in_log

\* C10: the KEL holds at most one event per (identifier, sequence number),
\* i.e. BySn never yields more than one event, and two commits in progress
\* for one identifier were never both applied to the same prior key state.
C10_OneEventPerSequence ==
    /\ \A id \in Prefixes, sn \in 0..MaxSn : Len(BySn(id, sn)) <= 1
    /\ \A t1 \in Writers, t2 \in Writers :
           (t1 # t2 /\ InFlight(t1) /\ InFlight(t2) /\ writer[t1].id = writer[t2].id)
               => writer[t1].current_state # writer[t2].current_state

RECURSIVE FoldApply(_, _)
\* the left fold of IdentifierState::apply over a list of stored events
FoldApply(state, kel) ==
    IF kel = <<>> THEN [ok |-> TRUE, state |-> state]
    ELSE LET r == apply(state, Head(kel).signed_event_message.event_message)
         IN  IF r.ok THEN FoldApply(r.state, Tail(kel)) ELSE r

\* C8: after any sequence of add_kel_finalized_event calls, successful or
\* failing, for every identifier the key state is absent iff no event was
\* committed for it, and otherwise it is the left fold of apply from the
\* default state over the events of get_kel_finalized_events(All) in order.
C8_StateIsFoldOfKel ==
    \A id \in Prefixes :
        /\ (id \in DOMAIN states) <=> (GetOrEmpty(events, id) # <<>>)
        /\ (id \in DOMAIN states)
               => FoldApply(DefaultState, events[id]) =
                      [ok |-> TRUE, state |-> states[id]]

\* C8 witness: a rotation was committed on top of an inception, and the last
\* call was rejected by apply.
C8_Witness ==
    /\ \E id \in Prefixes : Len(GetOrEmpty(events, id)) >= 2
    /\ lastCall.valid /\ lastCall.op = "add_kel_finalized_event" /\ ~lastCall.ok

\* the call that returned last committed an inception event for its own
\* identifier to a fresh database
FreshInception ==
    /\ lastCall.valid
    /\ lastCall.op = "add_kel_finalized_event"
    /\ lastCall.fresh
    /\ lastCall.event.event_message.type = "icp"
    /\ lastCall.event.event_message.sn = 0
    /\ lastCall.id = lastCall.event.event_message.prefix

\* C9: committing an inception event for an identifier with no stored state
\* to a fresh database succeeds and leaves the key state present with
\* sequence 0 and the event's declared keys, and a KEL of exactly one event.
C9_InceptionOnFreshDatabase ==
    FreshInception
        => /\ lastCall.ok
           /\ lastCall.id \in DOMAIN states
           /\ states[lastCall.id].sn = 0
           /\ states[lastCall.id].current = lastCall.event.event_message.keys
           /\ Len(GetOrEmpty(events, lastCall.id)) = 1
           /\ events[lastCall.id][1].signed_event_message = lastCall.event

\* C9 witness: such a call has returned Ok.
C9_Witness == FreshInception /\ lastCall.ok

\* C11: committed KEL events are immutable and never deleted: over any
\* MemoryDatabase operation the list get_kel_finalized_events(All{I}) returns
\* only grows at its end, every event staying at its position unchanged.
C11_KelOnlyGrowsAtTheEnd ==
    [][\A id \in Prefixes :
           LET old == GetOrEmpty(events, id)
               new == GetOrEmpty(events', id)
           IN  /\ Len(old) <= Len(new)
               /\ SubSeq(new, 1, Len(old)) = old]_vars

\* C11 witness: a KEL of two events, with receipts stored and accept_to_kel
\* called after the commits.
C11_Witness ==
    /\ \E id \in Prefixes : Len(GetOrEmpty(events, id)) >= 2
    /\ StoredReceipts > 0
    /\ lastCall.valid /\ lastCall.op = "accept_to_kel"

\* C12: appending a receipt deduplicates by (signer, signature): add_receipt_nt
\* (resp. add_receipt_t) with a receipt already stored for (id, sn) leaves the
\* list get_receipts_nt (resp. get_receipts_t) returns for BySn{id, sn} as it
\* was, and no stored list holds an entry twice.
C12_ReceiptAppendDeduplicates ==
    [][/\ \A r \in NontransReceipts, id \in ReceiptIds :
             (add_receipt_nt(r, id) /\ r \in Elements(get_receipts_nt(id, r.body.sn)))
                 => /\ GetOrEmpty(receipts_nt', <<id, r.body.sn>>) =
                           get_receipts_nt(id, r.body.sn)
                    /\ NoRepeats(GetOrEmpty(receipts_nt', <<id, r.body.sn>>))
       /\ \A r \in TransReceipts, id \in ReceiptIds :
             (/\ add_receipt_t(r, id)
              /\ TransferableSeal(r.validator_seal, r.signatures)
                     \in Elements(get_receipts_t(id, r.body.sn)))
                 => /\ GetOrEmpty(receipts_t', <<id, r.body.sn>>) =
                           get_receipts_t(id, r.body.sn)
                    /\ NoRepeats(GetOrEmpty(receipts_t', <<id, r.body.sn>>))]_vars

\* C19: when IdentifierState::apply rejects the event,
\* add_kel_finalized_event returns the error and leaves the key state, the
\* KEL, the log (events and signatures) and the receipt tables as they were.
C19_RejectedEventChangesNothing ==
    [][\A m \in KelMessages, id \in ReceiptIds :
           (/\ add_kel_finalized_event_of(m, id)
            /\ ~apply(CurrentState(id), m.event_message).ok)
               => /\ ~lastCall'.ok
                  /\ UNCHANGED <<states, events, log_events, log_signatures>>
                  /\ UNCHANGED <<receipts_t, receipts_nt, nontrans_couplets>>]_vars

\* C19 witness: a call was rejected on a database that holds a key state,
\* a KEL and receipts.
C19_Witness ==
    /\ lastCall.valid /\ lastCall.op = "add_kel_finalized_event" /\ ~lastCall.ok
    /\ lastCall.id \in DOMAIN states
    /\ GetOrEmpty(events, lastCall.id) # <<>>
    /\ receipts_t # EmptyMap /\ receipts_nt # EmptyMap

\* the stored events of id with start <= sn and sn - start < limit
InRange(id, start, limit) ==
    SelectSeq(GetOrEmpty(events, id),
              LAMBDA t : start <= SnOf(t) /\ SnOf(t) - start < limit)

\* C26: for every start and limit, get_kel_finalized_events(Range{id, start,
\* limit}) returns exactly the stored events of id with start <= sn and
\* sn - start < limit, in stored order, also when start + limit exceeds the
\* largest word: the upper bound neither wraps around nor aborts the call.
C26_RangeIsExactForEveryStartAndLimit ==
    \A id \in Prefixes, start \in Words, limit \in Words :
        \A out \in Range(id, start, limit) :
            /\ ~out.panic
            /\ out.some = (id \in DOMAIN events)
            /\ out.events = InRange(id, start, limit)

\* C26, the part that holds: with start + limit within the word the result
\* is exact.
C26_RangeIsExactWithoutOverflow ==
    \A id \in Prefixes, start \in Words, limit \in Words :
        start + limit <= WordMax
            => \A out \in Range(id, start, limit) :
                   /\ ~out.panic
                   /\ out.some = (id \in DOMAIN events)
                   /\ out.events = InRange(id, start, limit)

(***************************************************************************)
(* Claims about the log and the escrow tables (checked under SpecEscrow)   *)
(***************************************************************************)
\* C6: log_event with an event whose digest is already stored is a no-op:
\* the stored event entry and the stored signature list of that digest stay
\* as the first write left them, also when the second message carries
\* another signature list.
C6_LogEventIdempotentOnDigest ==
    [][\A m \in EscrowMessages :
           (log_event(m) /\ m.event_message.digest \in DOMAIN log_events)
               => /\ log_events'[m.event_message.digest] =
                         log_events[m.event_message.digest]
                  /\ log_signatures'[m.event_message.digest] =
                         log_signatures[m.event_message.digest]]_vars

\* C7: after any sequence of insert, insert_key_value, save_digest and
\* remove, every digest in an escrow table's sequenced index has a signed
\* event stored under it in the shared log.
C7_IndexedDigestsAreLogged ==
    \A t \in Tables :
        \A key \in DOMAIN sequenced[t] :
            \A i \in 1..Len(sequenced[t][key]) :
                get_signed_event(sequenced[t][key][i]).some

RECURSIVE AscendingFrom(_, _, _, _)
\* the digests indexed for identifier at sn..top, by ascending sequence
\* number and within one sequence number in insertion order
AscendingFrom(data, identifier, sn, top) ==
    IF sn > top THEN <<>>
    ELSE GetOrEmpty(data, <<identifier, sn>>)
             \o AscendingFrom(data, identifier, sn + 1, top)

\* the highest sequence number indexed
TopSn == CHOOSE s \in EscrowSns : \A x \in EscrowSns : x <= s

\* C14: the range iteration of the sequenced index (get_greater_than, and
\* get_from_sn built on it) yields its digests / events in ascending sequence
\* number, and within one sequence number in insertion order.
C14_RangeIsAscending ==
    \A t \in Tables, id \in Prefixes, sn \in EscrowSns :
        /\ \A digests \in get_greater_than(sequenced[t], id, sn) :
               digests = AscendingFrom(sequenced[t], id, sn, TopSn)
        /\ \A evts \in escrow_get_from_sn(t, id, sn) :
               evts = Hydrate(AscendingFrom(sequenced[t], id, sn, TopSn))

\* C14, the part that holds: the digests of one sequence number come out
\* next to each other in insertion order (get returns the list as inserted).
C14_InsertionOrderWithinOneSn ==
    \A t \in Tables, id \in Prefixes, sn \in EscrowSns :
        \A digests \in get_greater_than(sequenced[t], id, TopSn) :
            digests = SequencedGet(sequenced[t], id, TopSn)

\* C15: MemoryEscrowDb::remove(event) erases only the table's index pointer
\* for the event's (identifier, sequence, digest): afterwards contains is
\* false and get(id, sn) does not return the event, the shared log returns
\* the signed event and its signatures as before, and every other index
\* entry, of this table and of the others, is unchanged.
C15_RemoveErasesOnlyThePointer ==
    [][\A t \in Tables, m \in EscrowMessages :
           (escrow_remove(t, m.event_message) /\ m.event_message.digest # NoDigest)
               => LET e == m.event_message
                      key == <<e.prefix, e.sn>>
                  IN  /\ ~escrow_contains(t, e.prefix, e.sn, e.digest)'
                      /\ \A x \in Elements(escrow_get(t, e.prefix, e.sn)') :
                             x.event_message # e
                      /\ get_signed_event(e.digest)' = get_signed_event(e.digest)
                      /\ log_events' = log_events
                      /\ log_signatures' = log_signatures
                      /\ Len(sequenced') = Len(sequenced)
                      /\ \A t2 \in Tables :
                             /\ DOMAIN sequenced'[t2] = DOMAIN sequenced[t2]
                             /\ \A k \in DOMAIN sequenced[t2] :
                                    sequenced'[t2][k] =
                                        IF t2 = t /\ k = key
                                        THEN SelectSeq(sequenced[t2][k],
                                                       LAMBDA d : d # e.digest)
                                        ELSE sequenced[t2][k]]_vars

\* C15 witness: a table whose entry for the first inception of I was emptied
\* by remove while it still indexes another digest, the event still logged.
C15_Witness ==
    \E t \in Tables :
        /\ <<"I", 0>> \in DOMAIN sequenced[t]
        /\ sequenced[t][<<"I", 0>>] = <<>>
        /\ get_signed_event(KeyEvent("I", 0, 1).digest).some
        /\ \E k \in DOMAIN sequenced[t] : sequenced[t][k] # <<>>

\* C16: an escrow table made by create_escrow_db shares the log of the
\* database: after escrow.insert(e) the log of the database returns e for
\* digest(e), contains(id(e), sn(e), digest(e)) is true, and
\* get(id(e), sn(e)) returns e, with one hydrated event for each digest the
\* index holds under that key.
C16_InsertSharesTheLog ==
    [][\A t \in Tables, m \in EscrowMessages :
           (escrow_insert(t, m) /\ m.event_message.digest # NoDigest)
               => LET e == m.event_message
                  IN  /\ get_signed_event(e.digest)' = [some |-> TRUE, event |-> m]
                      /\ escrow_contains(t, e.prefix, e.sn, e.digest)'
                      /\ m \in Elements(escrow_get(t, e.prefix, e.sn)')
                      /\ Len(escrow_get(t, e.prefix, e.sn)')
                           = Len(SequencedGet(sequenced'[t], e.prefix, e.sn))]_vars

\* C16, the part that holds: the log of the database returns the inserted
\* event, contains is true, and get returns the event once for each pointer
\* to its digest under that key.
C16_InsertedEventIsShared ==
    [][\A t \in Tables, m \in EscrowMessages :
           (escrow_insert(t, m) /\ m.event_message.digest # NoDigest)
               => LET e == m.event_message
                  IN  /\ get_signed_event(e.digest)' = [some |-> TRUE, event |-> m]
                      /\ escrow_contains(t, e.prefix, e.sn, e.digest)'
                      /\ m \in Elements(escrow_get(t, e.prefix, e.sn)')
                      /\ Len(SelectSeq(escrow_get(t, e.prefix, e.sn)',
                                       LAMBDA x : x = m))
                           = Len(SelectSeq(SequencedGet(sequenced'[t], e.prefix, e.sn),
                                           LAMBDA d : d = e.digest))]_vars

(***************************************************************************)
(* Claims about the couplets of the log (checked under SpecLog)            *)
(***************************************************************************)
\* C13: logging a nontransferable receipt adds its couplets to those stored
\* under the receipted event's digest as a set union: get_nontrans_couplets
\* then holds every couplet stored before and every couplet of the receipt,
\* and no couplet more than once.
C13_CoupletsAreSetUnion ==
    [][\A r \in LogReceipts :
           log_receipt(r)
               => LET digest == r.body.receipted_event_digest
                      new == GetOrEmpty(nontrans_couplets', digest)
                  IN  /\ Elements(new) = Elements(get_nontrans_couplets(digest))
                                             \cup Elements(r.signatures)
                      /\ (NoRepeats(get_nontrans_couplets(digest)) => NoRepeats(new))]_vars

\* C13, the part that holds: nothing stored is lost and every couplet of the
\* receipt is stored.
C13_CoupletsAreKept ==
    [][\A r \in LogReceipts :
           log_receipt(r)
               => LET digest == r.body.receipted_event_digest
                      new == GetOrEmpty(nontrans_couplets', digest)
                  IN  Elements(new) = Elements(get_nontrans_couplets(digest))
                                         \cup Elements(r.signatures)]_vars

(***************************************************************************)
(* Claims about MemorySequencedEventDb (checked under SpecIndex)           *)
(***************************************************************************)
\* the sequence numbers asked for: those indexed and one above them
AskedSns == EscrowSns \cup { TopSn + 1 }

\* C21: get_greater_than(id, sn) returns exactly the digests stored under id
\* at sequence numbers >= sn, each as many times as it is stored there, and
\* no digest stored only under another identifier or at a lower sequence
\* number.
C21_RangeHoldsExactlyTheDigestsFromSn ==
    \A id \in Prefixes, sn \in AskedSns :
        \A digests \in get_greater_than(sequenced[TheIndex], id, sn) :
            LET stored == AscendingFrom(sequenced[TheIndex], id, sn, TopSn)
            IN  /\ Len(digests) = Len(stored)
                /\ \A d \in IndexDigests : Count(digests, d) = Count(stored, d)

\* C21 witness: the index holds a digest for I at sequence number 0, a
\* digest for I at sequence number 1 and a digest for J, so that a range
\* from 1 has something to return and something of either kind to leave out.
C21_Witness ==
    /\ SequencedGet(sequenced[TheIndex], "I", 0) # <<>>
    /\ SequencedGet(sequenced[TheIndex], "I", 1) # <<>>
    /\ \E sn \in EscrowSns : SequencedGet(sequenced[TheIndex], "J", sn) # <<>>
    /\ \E digests \in get_greater_than(sequenced[TheIndex], "I", 1) :
           digests = SequencedGet(sequenced[TheIndex], "I", 1)

RECURSIVE Without(_, _)
\* the list with every occurrence of d left out, the rest in order
Without(list, d) ==
    IF list = <<>> THEN <<>>
    ELSE (IF Head(list) = d THEN <<>> ELSE <<Head(list)>>) \o Without(Tail(list), d)

\* C22: remove(id, sn, d) removes every occurrence of d at key (id, sn),
\* keeps the other digests of the key in their order, leaves every other key
\* as it was, and changes nothing when the key or the digest is absent.
C22_RemoveTakesEveryOccurrence ==
    [][\A id \in Prefixes, sn \in EscrowSns, d \in IndexDigests :
           sequenced_remove(id, sn, d)
               => LET old == sequenced[TheIndex]
                      new == sequenced'[TheIndex]
                      key == <<id, sn>>
                  IN  /\ DOMAIN new = DOMAIN old
                      /\ \A k \in DOMAIN old \ {key} : new[k] = old[k]
                      /\ key \in DOMAIN old
                             => /\ Count(new[key], d) = 0
                                /\ new[key] = Without(old[key], d)
                      /\ (key \notin DOMAIN old \/ Count(old[key], d) = 0)
                             => new = old]_vars

\* C22 witness: remove has just taken two occurrences of a digest out of a
\* key and left another digest there.
C22_Witness ==
    /\ lastCall.valid
    /\ lastCall.op = "remove"
    /\ lastCall.found = 2
    /\ SequencedGet(sequenced[TheIndex], lastCall.key[1], lastCall.key[2]) # <<>>

\* C22, the order of the others: remove has just taken one digest out of a
\* key and left two others there.
C22_WitnessOrderKept ==
    /\ lastCall.valid
    /\ lastCall.op = "remove"
    /\ lastCall.found = 1
    /\ Len(SequencedGet(sequenced[TheIndex], lastCall.key[1], lastCall.key[2])) = 2

(***************************************************************************)
(* Claims about events placed in escrow tables (checked under SpecPlaced)  *)
(***************************************************************************)
\* C23: every event placed in an escrow table by insert or insert_key_value
\* is taken out by remove(event): after remove(e), contains(k, s, digest(e))
\* is false for every key (k, s) under which e was indexed, also a key other
\* than the event's own prefix and sequence number.
C23_RemoveTakesOutWhatWasPlaced ==
    [][\A t \in Tables, m \in EscrowMessages :
           (escrow_remove(t, m.event_message) /\ m.event_message.digest # NoDigest)
               => \A id \in Prefixes, sn \in EscrowSns :
                      ~escrow_contains(t, id, sn, m.event_message.digest)']_vars

\* C23, the part that holds: after remove(e) the table does not contain
\* digest(e) under the event's own prefix and sequence number, where insert
\* puts it.
C23_RemoveTakesOutAtOwnKey ==
    [][\A t \in Tables, m \in EscrowMessages :
           (escrow_remove(t, m.event_message) /\ m.event_message.digest # NoDigest)
               => LET e == m.event_message
                  IN  ~escrow_contains(t, e.prefix, e.sn, e.digest)']_vars

RECURSIVE WithoutAll(_, _)
\* the list with every element that is in the set left out, the rest in order
WithoutAll(list, set) ==
    IF list = <<>> THEN <<>>
    ELSE (IF Head(list) \in set THEN <<>> ELSE <<Head(list)>>)
             \o WithoutAll(Tail(list), set)

OperationOn(t) ==
    \/ \E m \in EscrowMessages : escrow_insert(t, m)
    \/ \E id \in Prefixes, sn \in EscrowSns, m \in EscrowMessages :
           escrow_insert_key_value(t, id, sn, m)
    \/ \E id \in Prefixes, sn \in EscrowSns, d \in EscrowDigests :
           save_digest(t, id, sn, d)
    \/ \E m \in EscrowMessages : escrow_remove(t, m.event_message)

\* the digests asked for
AskedDigests == EscrowDigests \cup { e.digest : e \in EscrowEvents }

\* C25: insert, insert_key_value, save_digest and remove on one escrow table
\* never change what get, get_from_sn or contains return on another escrow
\* table, whether made under another name or by a second call with the same
\* name.
C25_TablesAreIsolated ==
    [][\A t \in Tables :
           OperationOn(t)
               => \A t2 \in Tables \ {t} :
                      \A id \in Prefixes, sn \in EscrowSns :
                          /\ escrow_get(t2, id, sn)' = escrow_get(t2, id, sn)
                          /\ escrow_get_from_sn(t2, id, sn)' = escrow_get_from_sn(t2, id, sn)
                          /\ \A d \in AskedDigests :
                                 escrow_contains(t2, id, sn, d)'
                                     = escrow_contains(t2, id, sn, d)]_vars

\* C25, the part that holds: the index of another table, and so what
\* contains returns on it and the digests get and get_from_sn start from,
\* is not changed.
C25_IndexesAreIsolated ==
    [][\A t \in Tables :
           OperationOn(t)
               => \A t2 \in Tables \ {t} :
                      /\ sequenced'[t2] = sequenced[t2]
                      /\ \A id \in Prefixes, sn \in EscrowSns, d \in AskedDigests :
                             escrow_contains(t2, id, sn, d)'
                                 = escrow_contains(t2, id, sn, d)]_vars

====
